---- MODULE Spec2Model ----
(***************************************************************************)
(* Model of the data pipeline of main.py and main2.py: DataProcessor,      *)
(* DataAnalyzer, DataGenerator.generate_fibonacci_sequence, the standalone *)
(* math operation and the user-input flow.                                 *)
(*                                                                         *)
(* Python floats are modelled as binary floating-point numbers with        *)
(* PrecBits mantissa bits and round-to-nearest-even after every operation  *)
(* (IEEE 754 with a shorter mantissa and an unbounded exponent).           *)
(***************************************************************************)
EXTENDS Integers, Sequences, FiniteSets, TLC

\* ------------------------------------------------------------------ bounds
PrecBits == 6
MaxLen == 3
MaxWrites == 2
MaxFibLen == 14
MaxTextLen == 3
MaxOperand == 3

\* ------------------------------------------------- floating-point numbers
\* A float is [s, m, e] standing for s * m * 2^e, with s in {1,-1} and either
\* m = 0 (zero, written [s |-> 1, m |-> 0, e |-> 0]) or 2^(PrecBits-1) <= m < 2^PrecBits.
Pow2(k) == 2 ^ k

\* The element of a one-element set. Only({F(v) : v \in {e}}) evaluates e once
\* and then F on its value.
Only(S) == CHOOSE v \in S : TRUE

FZero == [s |-> 1, m |-> 0, e |-> 0]

AbsInt(n) == IF n < 0 THEN -n ELSE n

SignInt(n) == IF n < 0 THEN -1 ELSE 1

\* Scale the fraction n/d by powers of two until Pow2(PrecBits) <= n/d < Pow2(PrecBits+1).
RECURSIVE NormFrac(_, _, _)
NormFrac(n, d, e) ==
    IF n < d * Pow2(PrecBits) THEN NormFrac(2 * n, d, e - 1)
    ELSE IF n >= d * Pow2(PrecBits + 1) THEN NormFrac(n, 2 * d, e + 1)
    ELSE <<n, d, e>>

\* Round-to-nearest-even of a quotient q of PrecBits+1 bits (its last bit is the
\* rounding bit) with a sticky flag for what lies below it; q stands for q * 2^e.
RoundBits(s, q, sticky, e) ==
    LET m0 == q \div 2
        up == (q % 2 = 1) /\ (sticky \/ m0 % 2 = 1)
        m1 == IF up THEN m0 + 1 ELSE m0
    IN IF m1 = Pow2(PrecBits)
       THEN [s |-> s, m |-> Pow2(PrecBits - 1), e |-> e + 2]
       ELSE [s |-> s, m |-> m1, e |-> e + 1]

\* The float nearest to s * (n/d) * 2^e, for n >= 0 and d > 0.
RoundRat(s, n, d, e) ==
    IF n = 0 THEN FZero
    ELSE Only({RoundBits(s, t[1] \div t[2], t[1] % t[2] # 0, t[3]) :
                 t \in {NormFrac(n, d, e)}})

\* int -> float conversion
FromInt(n) == RoundRat(SignInt(n), AbsInt(n), 1, 0)

FNeg(a) == IF a.m = 0 THEN a ELSE [a EXCEPT !.s = -a.s]

FAbs(a) == [a EXCEPT !.s = 1]

\* a < b
FLt(a, b) ==
    LET MagLt(x, y) == \/ x.m = 0 /\ y.m # 0
                       \/ x.m # 0 /\ y.m # 0 /\ (x.e < y.e \/ (x.e = y.e /\ x.m < y.m))
    IN IF a.m = 0 /\ b.m = 0 THEN FALSE
       ELSE IF a.m = 0 THEN b.s = 1
       ELSE IF b.m = 0 THEN a.s = -1
       ELSE IF a.s # b.s THEN a.s = -1
       ELSE IF a.s = 1 THEN MagLt(a, b)
       ELSE MagLt(b, a)

FGt(a, b) == FLt(b, a)

FLe(a, b) == ~FLt(b, a)

\* a + b, rounded. An operand more than PrecBits+1 binary places below the
\* other cannot change the rounded sum.
FAdd(a, b) ==
    IF a.m = 0 THEN b
    ELSE IF b.m = 0 THEN a
    ELSE LET hi == IF a.e >= b.e THEN a ELSE b
             lo == IF a.e >= b.e THEN b ELSE a
             dE == hi.e - lo.e
         IN IF dE > PrecBits + 1 THEN hi
            ELSE Only({RoundRat(SignInt(M), AbsInt(M), 1, lo.e) :
                         M \in {hi.s * hi.m * Pow2(dE) + lo.s * lo.m}})

FSub(a, b) == FAdd(a, FNeg(b))

FMul(a, b) == RoundRat(a.s * b.s, a.m * b.m, 1, a.e + b.e)

\* a / b for b # 0
FDiv(a, b) == RoundRat(a.s * b.s, a.m, b.m, a.e - b.e)

\* Bring m * 2^e (m > 0, e even) to Pow2(2*PrecBits) <= m < Pow2(2*PrecBits+2),
\* four at a time, keeping a sticky flag for the bits dropped.
RECURSIVE NormRadicand(_, _, _)
NormRadicand(m, e, sticky) ==
    IF m < Pow2(2 * PrecBits) THEN NormRadicand(4 * m, e - 2, sticky)
    ELSE IF m >= Pow2(2 * PrecBits + 2)
         THEN NormRadicand(m \div 4, e + 2, sticky \/ m % 4 # 0)
    ELSE <<m, e, sticky>>

ISqrt(n) == CHOOSE q \in 0..Pow2(PrecBits + 1) : q * q <= n /\ n < (q + 1) * (q + 1)

\* The float nearest to sqrt(m * 2^e), m >= 0.
SqrtRat(m, e) ==
    IF m = 0 THEN FZero
    ELSE LET m2 == IF e % 2 = 0 THEN m ELSE 2 * m
             e2 == IF e % 2 = 0 THEN e ELSE e - 1
         IN Only({Only({RoundBits(1, q, t[3] \/ q * q # t[1], t[2] \div 2) :
                          q \in {ISqrt(t[1])}}) :
                    t \in {NormRadicand(m2, e2, FALSE)}})

\* math.sqrt of a float
FSqrt(a) == SqrtRat(a.m, a.e)

\* ------------------------------------------------------------ input sets
\* Raw integers the datasets are drawn from: 0 (transformed value below 1),
\* odd negative, even unadjusted (64), even adjusted (1024 -> 102.4, still
\* above 100) and odd with a square root above 100. Each even square is
\* exactly representable, so Python's int results and their float images agree.
RawValues == {-15, 0, 8, 32, 10609}

RECURSIVE SeqsUpTo(_, _)
SeqsUpTo(S, n) ==
    IF n = 0 THEN {<<>>}
    ELSE LET shorter == SeqsUpTo(S, n - 1)
         IN shorter \cup {Append(q, x) : q \in {r \in shorter : Len(r) = n - 1}, x \in S}

\* thresholds passed to find_outliers: 0.5 and 2.0 (the default)
Half == RoundRat(1, 1, 2, 0)

DefaultThreshold == FromInt(2)

Thresholds == {Half, DefaultThreshold}

\* ------------------------------------------------------------------ main.py
\* A list object is [id, values]: id tells instances apart (0: None, or the
\* list made by the constructor); each list built by process_data is new.
NoList == [id |-> 0, values |-> <<>>]

NoStats == [mean |-> FZero, max |-> FZero, min |-> FZero, std_dev |-> FZero]

NoGroups == [low |-> <<>>, medium |-> <<>>, high |-> <<>>]

\* ProcessNumber1 with the range adjustment repeated until the value fits
ProcessNumber1_Repeated(num) ==
    IF num % 2 = 0
    THEN IF num * num > 1000 THEN RoundRat(1, num * num, 100, 0)
         ELSE IF num * num > 100 THEN RoundRat(1, num * num, 10, 0)
         ELSE FromInt(num * num)
    ELSE SqrtRat(AbsInt(num), 0)

\* the loop body of process_data: the two operations on one number
ProcessNumber1(num) ==
    IF num % 2 = 0
    THEN LET res == num * num
         IN IF res > 100 THEN RoundRat(1, res, 10, 0)
            ELSE IF res < 1 THEN FromInt(res * 10)
            ELSE FromInt(res)
    ELSE Only({IF FGt(res, FromInt(100)) THEN FDiv(res, FromInt(10))
               ELSE IF FLt(res, FromInt(1)) THEN FMul(res, FromInt(10))
               ELSE res :
               res \in {SqrtRat(AbsInt(num), 0)}})

\* for num in self.data: ... temp_results.append(res)
RECURSIVE ProcessLoop1(_, _)
ProcessLoop1(rest, temp_results) ==
    IF rest = <<>> THEN temp_results
    ELSE Only({ProcessLoop1(Tail(rest), Append(temp_results, res)) :
               res \in {ProcessNumber1(Head(rest))}})

\* ProcessData1 appending to the list already held instead of a fresh one
ProcessData1_Accumulate(d, p) ==
    IF d = <<>> THEN [p |-> p, err |-> TRUE]
    ELSE [p |-> [processed |-> TRUE,
                 results |-> [id |-> p.writes + 1,
                              values |-> ProcessLoop1(d, p.results.values)],
                 writes |-> p.writes + 1],
          err |-> FALSE]

\* DataProcessor.process_data: [p: the processor after the call, err: raised]
ProcessData1(d, p) ==
    IF d = <<>> THEN [p |-> p, err |-> TRUE]
    ELSE Only({[p |-> [processed |-> TRUE,
                       results |-> [id |-> p.writes + 1, values |-> temp_results],
                       writes |-> p.writes + 1],
                err |-> FALSE] :
               temp_results \in {ProcessLoop1(d, <<>>)}})

\* GetResults1 without the "if not self._processed" guard
GetResults1_NoGuard(d, p) ==
    Only({[p |-> r.p, err |-> r.err, ret |-> IF r.err THEN NoList ELSE r.p.results] :
          r \in {ProcessData1(d, p)}})

\* DataProcessor.get_results
GetResults1(d, p) ==
    IF ~p.processed
    THEN Only({[p |-> r.p, err |-> r.err,
                ret |-> IF r.err THEN NoList ELSE r.p.results] :
               r \in {ProcessData1(d, p)}})
    ELSE [p |-> p, err |-> FALSE, ret |-> p.results]

\* sum(values): left to right from 0
RECURSIVE FSum(_, _)
FSum(values, acc) ==
    IF values = <<>> THEN acc
    ELSE Only({FSum(Tail(values), s) : s \in {FAdd(acc, Head(values))}})

\* max(values), min(values): the first greatest / least element
RECURSIVE FMax(_, _)
FMax(values, best) ==
    IF values = <<>> THEN best
    ELSE Only({FMax(Tail(values), b) :
               b \in {IF FGt(Head(values), best) THEN Head(values) ELSE best}})

RECURSIVE FMin(_, _)
FMin(values, best) ==
    IF values = <<>> THEN best
    ELSE Only({FMin(Tail(values), b) :
               b \in {IF FLt(Head(values), best) THEN Head(values) ELSE best}})

Mean1(values) == Only({FDiv(s, FromInt(Len(values))) : s \in {FSum(values, FZero)}})

\* sum((x - mean) ** 2 for x in values)
RECURSIVE SumSquares(_, _, _)
SumSquares(values, mean, acc) ==
    IF values = <<>> THEN acc
    ELSE Only({Only({Only({SumSquares(Tail(values), mean, s) : s \in {FAdd(acc, sq)}}) :
                     sq \in {FMul(dev, dev)}}) :
               dev \in {FSub(Head(values), mean)}})

\* DataProcessor._calculate_std_dev
CalculateStdDev1(values) ==
    Only({Only({Only({FSqrt(variance) :
                      variance \in {FDiv(total, FromInt(Len(values)))}}) :
                total \in {SumSquares(values, mean, FZero)}}) :
          mean \in {Mean1(values)}})

\* DataProcessor.calculate_stats
CalculateStats1(d, p) ==
    Only({IF r.err THEN [p |-> r.p, err |-> TRUE, ret |-> NoStats]
          ELSE Only({[p |-> r.p, err |-> FALSE,
                      ret |-> [mean |-> Mean1(v), max |-> FMax(Tail(v), Head(v)),
                               min |-> FMin(Tail(v), Head(v)),
                               std_dev |-> CalculateStdDev1(v)]] :
                     v \in {r.p.results.values}}) :
          r \in {IF ~p.processed THEN ProcessData1(d, p) ELSE [p |-> p, err |-> FALSE]}})

\* for idx, value in enumerate(results): if abs(value - mean) > threshold * std_dev
RECURSIVE OutlierLoop1(_, _, _, _, _, _)
OutlierLoop1(results, idx, mean, std_dev, threshold, outliers) ==
    IF idx >= Len(results) THEN outliers
    ELSE Only({Only({Only({OutlierLoop1(results, idx + 1, mean, std_dev, threshold,
                                  IF FGt(FAbs(dev), limit)
                                  THEN Append(outliers, <<idx, value>>)
                                  ELSE outliers) :
                           limit \in {FMul(threshold, std_dev)}}) :
                     dev \in {FSub(value, mean)}}) :
               value \in {results[idx + 1]}})

\* DataAnalyzer.find_outliers
FindOutliers1(d, p, threshold) ==
    Only({IF g.err THEN [p |-> g.p, err |-> TRUE, ret |-> <<>>]
          ELSE Only({[p |-> st.p, err |-> FALSE,
                      ret |-> OutlierLoop1(g.ret.values, 0, st.ret.mean,
                                           st.ret.std_dev, threshold, <<>>)] :
                     st \in {CalculateStats1(d, g.p)}}) :
          g \in {GetResults1(d, p)}})

\* for value in results: if value < 10 ... elif 10 <= value <= 50 ... else ...
RECURSIVE GroupLoop1(_, _)
GroupLoop1(rest, groups) ==
    IF rest = <<>> THEN groups
    ELSE LET value == Head(rest)
         IN GroupLoop1(Tail(rest),
                IF FLt(value, FromInt(10))
                THEN [groups EXCEPT !.low = Append(@, value)]
                ELSE IF FLe(FromInt(10), value) /\ FLe(value, FromInt(50))
                THEN [groups EXCEPT !.medium = Append(@, value)]
                ELSE [groups EXCEPT !.high = Append(@, value)])

\* DataAnalyzer.group_values
GroupValues1(d, p) ==
    Only({IF g.err THEN [p |-> g.p, err |-> TRUE, ret |-> NoGroups]
          ELSE [p |-> g.p, err |-> FALSE, ret |-> GroupLoop1(g.ret.values, NoGroups)] :
          g \in {GetResults1(d, p)}})

\* ----------------------------------------------------------------- main2.py
\* DataTransformer.transform_even_number
TransformEvenNumber(num) == FromInt(num * num)

\* DataTransformer.transform_odd_number
TransformOddNumber(num) == SqrtRat(AbsInt(num), 0)

\* transform_even_number(num) if num % 2 == 0 else transform_odd_number(num)
SelectTransform(num) ==
    IF num % 2 = 0 THEN TransformEvenNumber(num) ELSE TransformOddNumber(num)

\* DataTransformer.adjust_value_range
AdjustValueRange(value) ==
    IF FGt(value, FromInt(100)) THEN FDiv(value, FromInt(10))
    ELSE IF FLt(value, FromInt(1)) THEN FMul(value, FromInt(10))
    ELSE value

\* DataStatisticsCalculator.calculate_mean
CalculateMean(values) ==
    Only({FDiv(s, FromInt(Len(values))) : s \in {FSum(values, FZero)}})

\* CalculateStandardDeviation dividing by N - 1 (the sample deviation)
CalculateStandardDeviation_Sample(values) ==
    IF Len(values) = 1 THEN FZero
    ELSE Only({Only({Only({FSqrt(variance) :
                           variance \in {FDiv(total, FromInt(Len(values) - 1))}}) :
                     total \in {SumSquares(values, mean, FZero)}}) :
               mean \in {CalculateMean(values)}})

\* DataStatisticsCalculator.calculate_standard_deviation
CalculateStandardDeviation(values) ==
    Only({Only({Only({FSqrt(variance) :
                      variance \in {FDiv(total, FromInt(Len(values)))}}) :
                total \in {SumSquares(values, mean, FZero)}}) :
          mean \in {CalculateMean(values)}})

\* DataStatisticsCalculator.calculate_basic_stats
CalculateBasicStats(values) ==
    [mean |-> CalculateMean(values),
     max |-> FMax(Tail(values), Head(values)),
     min |-> FMin(Tail(values), Head(values)),
     std_dev |-> CalculateStandardDeviation(values)]

\* for num in self.raw_data: ... transformed_values.append(adjusted)
RECURSIVE ProcessLoop2(_, _)
ProcessLoop2(rest, transformed_values) ==
    IF rest = <<>> THEN transformed_values
    ELSE Only({Only({ProcessLoop2(Tail(rest), Append(transformed_values, adjusted)) :
                     adjusted \in {AdjustValueRange(transformed)}}) :
               transformed \in {SelectTransform(Head(rest))}})

\* ProcessData2 marking the data processed before it checks for emptiness
ProcessData2_FlagFirst(d, p) ==
    IF d = <<>> THEN [p |-> [p EXCEPT !.results.is_processed = TRUE], err |-> TRUE]
    ELSE [p |-> [results |-> [values |-> [id |-> p.writes + 1,
                                          values |-> ProcessLoop2(d, <<>>)],
                              is_processed |-> TRUE],
                 writes |-> p.writes + 1],
          err |-> FALSE]

\* DataProcessor.process_data of main2.py; self._results is a ProcessedData
\* [values, is_processed]
ProcessData2(d, p) ==
    IF d = <<>> THEN [p |-> p, err |-> TRUE]
    ELSE Only({[p |-> [results |-> [values |-> [id |-> p.writes + 1,
                                                values |-> transformed_values],
                                    is_processed |-> TRUE],
                       writes |-> p.writes + 1],
                err |-> FALSE] :
               transformed_values \in {ProcessLoop2(d, <<>>)}})

\* DataProcessor.get_results of main2.py
GetResults2(d, p) ==
    IF ~p.results.is_processed
    THEN Only({[p |-> r.p, err |-> r.err,
                ret |-> IF r.err THEN NoList ELSE r.p.results.values] :
               r \in {ProcessData2(d, p)}})
    ELSE [p |-> p, err |-> FALSE, ret |-> p.results.values]

\* DataProcessor.calculate_stats of main2.py
CalculateStats2(d, p) ==
    Only({IF g.err THEN [p |-> g.p, err |-> TRUE, ret |-> NoStats]
          ELSE [p |-> g.p, err |-> FALSE, ret |-> CalculateBasicStats(g.ret.values)] :
          g \in {GetResults2(d, p)}})

\* [(idx, value) for idx, value in enumerate(results) if ...]
OutlierPairs2(results, mean, std_dev, threshold) ==
    Only({SelectSeq([i \in 1..Len(results) |-> <<i - 1, results[i]>>],
                    LAMBDA pr : Only({FGt(FAbs(dev), limit) :
                                      dev \in {FSub(pr[2], mean)}})) :
          limit \in {FMul(threshold, std_dev)}})

\* DataAnalyzer.find_outliers of main2.py
FindOutliers2(d, p, threshold) ==
    Only({IF g.err THEN [p |-> g.p, err |-> TRUE, ret |-> <<>>]
          ELSE Only({[p |-> st.p, err |-> FALSE,
                      ret |-> OutlierPairs2(g.ret.values, st.ret.mean,
                                            st.ret.std_dev, threshold)] :
                     st \in {CalculateStats2(d, g.p)}}) :
          g \in {GetResults2(d, p)}})

\* GroupValuesByRanges whose high bucket starts above 100
GroupValuesByRanges_HighOver100(d, p) ==
    Only({IF g.err THEN [p |-> g.p, err |-> TRUE, ret |-> NoGroups]
          ELSE [p |-> g.p, err |-> FALSE,
                ret |-> [low |-> SelectSeq(g.ret.values, LAMBDA v : FLt(v, FromInt(10))),
                         medium |-> SelectSeq(g.ret.values,
                             LAMBDA v : FLe(FromInt(10), v) /\ FLe(v, FromInt(50))),
                         high |-> SelectSeq(g.ret.values,
                             LAMBDA v : FGt(v, FromInt(100)))]] :
          g \in {GetResults2(d, p)}})

\* DataAnalyzer.group_values_by_ranges
GroupValuesByRanges(d, p) ==
    Only({IF g.err THEN [p |-> g.p, err |-> TRUE, ret |-> NoGroups]
          ELSE Only({[p |-> g.p, err |-> FALSE,
                      ret |-> [low |-> SelectSeq(results, LAMBDA v : FLt(v, FromInt(10))),
                               medium |-> SelectSeq(results,
                                   LAMBDA v : FLe(FromInt(10), v) /\ FLe(v, FromInt(50))),
                               high |-> SelectSeq(results,
                                   LAMBDA v : FGt(v, FromInt(50)))]] :
                     results \in {g.ret.values}}) :
          g \in {GetResults2(d, p)}})

\* -------------------------------------------- generate_fibonacci_sequence
\* DataGenerator.generate_fibonacci_sequence, statement by statement; the
\* text of the function is the same in both modules.
VARIABLES length, sequence, fibPc, fibRet

fibVars == <<length, sequence, fibPc, fibRet>>

\* ------------------------------------------------------- the math operation
\* z is [present, v]: present = FALSE stands for None.
NoneZ == [present |-> FALSE, v |-> 0]

\* math.log raises ValueError("math domain error") unless its argument is > 0
LogDefined(arg) == FGt(arg, FZero)

\* ComplexOperation taking abs(result) without the + 1
ComplexOperation_NoPlusOne(x, y, z) ==
    IF z.present /\ z.v = 0 THEN [status |-> "ValueError: zero divisor", arg |-> FZero]
    ELSE Only({Only({[status |-> IF LogDefined(arg) THEN "ok"
                                 ELSE "ValueError: math domain error",
                      arg |-> arg] :
                     arg \in {IF FGt(result, FZero) THEN result ELSE FAbs(result)}}) :
               result \in {IF z.present
                           THEN RoundRat(SignInt(x * y) * SignInt(z.v),
                                         AbsInt(x * y), AbsInt(z.v), 0)
                           ELSE FromInt(x * y)}})

\* complex_operation of main.py: [status, arg], arg the argument given to
\* math.log. x * y is an int; result /= z is the correctly rounded quotient.
ComplexOperation(x, y, z) ==
    IF z.present /\ z.v = 0 THEN [status |-> "ValueError: zero divisor", arg |-> FZero]
    ELSE Only({Only({[status |-> IF LogDefined(arg) THEN "ok"
                                 ELSE "ValueError: math domain error",
                      arg |-> arg] :
                     arg \in {IF FGt(result, FZero) THEN result
                              ELSE FAdd(FAbs(result), FromInt(1))}}) :
               result \in {IF z.present
                           THEN RoundRat(SignInt(x * y) * SignInt(z.v),
                                         AbsInt(x * y), AbsInt(z.v), 0)
                           ELSE FromInt(x * y)}})

\* MathOperations.perform_complex_calculation of main2.py
PerformComplexCalculation(x, y, z) ==
    IF z.present /\ z.v = 0 THEN [status |-> "ValueError: zero divisor", arg |-> FZero]
    ELSE Only({Only({[status |-> IF LogDefined(log_base) THEN "ok"
                                 ELSE "ValueError: math domain error",
                      arg |-> log_base] :
                     log_base \in {IF FGt(result, FZero) THEN result
                                   ELSE FAdd(FAbs(result), FromInt(1))}}) :
               result \in {IF z.present
                           THEN RoundRat(SignInt(x * y) * SignInt(z.v),
                                         AbsInt(x * y), AbsInt(z.v), 0)
                           ELSE FromInt(x * y)}})

VARIABLES opX, opY, opZ, opPc, opOut1, opOut2

mathVars == <<opX, opY, opZ, opPc, opOut1, opOut2>>

NoResult == [status |-> "none", arg |-> FZero]

\* ------------------------------------------------------ the user-input flow
\* The line read is a string over Chars.
Digits == {"0", "3", "5"}

Chars == Digits \cup {"-", " ", "x"}

DigitVal(c) == IF c = "0" THEN 0 ELSE IF c = "3" THEN 3 ELSE 5

\* str.strip()
RECURSIVE LStrip(_)
LStrip(t) == IF t # <<>> /\ Head(t) = " " THEN LStrip(Tail(t)) ELSE t

RECURSIVE RStrip(_)
RStrip(t) ==
    IF t # <<>> /\ t[Len(t)] = " " THEN RStrip(SubSeq(t, 1, Len(t) - 1)) ELSE t

Strip(t) == RStrip(LStrip(t))

\* the digits of int(value), most significant first
RECURSIVE ParseDigits(_, _)
ParseDigits(t, acc) ==
    IF t = <<>> THEN [ok |-> TRUE, n |-> acc]
    ELSE IF Head(t) \in Digits THEN ParseDigits(Tail(t), 10 * acc + DigitVal(Head(t)))
    ELSE [ok |-> FALSE, n |-> 0]

\* int(value): surrounding whitespace, an optional sign, at least one digit;
\* ok = FALSE stands for ValueError
ParseInt(value) ==
    Only({IF t = <<>> THEN [ok |-> FALSE, n |-> 0]
          ELSE IF Head(t) = "-"
          THEN IF Len(t) = 1 THEN [ok |-> FALSE, n |-> 0]
               ELSE Only({[ok |-> r.ok, n |-> -r.n] : r \in {ParseDigits(Tail(t), 0)}})
          ELSE ParseDigits(t, 0) :
          t \in {Strip(value)}})

NoneInt == [none |-> TRUE, v |-> 0]

SomeInt(n) == [none |-> FALSE, v |-> n]

\* ValidateInput rejecting zero as well (num <= 0)
ValidateInput_RejectZero(value) ==
    Only({IF ~r.ok THEN <<FALSE, NoneInt>>
          ELSE IF r.n <= 0 THEN <<FALSE, NoneInt>>
          ELSE <<TRUE, SomeInt(r.n)>> :
          r \in {ParseInt(value)}})

\* validate_input of main.py: the tuple (is_valid, number)
ValidateInput(value) ==
    Only({IF ~r.ok THEN <<FALSE, NoneInt>>
          ELSE IF r.n < 0 THEN <<FALSE, NoneInt>>
          ELSE <<TRUE, SomeInt(r.n)>> :
          r \in {ParseInt(value)}})

\* InputValidator.validate_positive_integer of main2.py
ValidatePositiveInteger(value) ==
    Only({IF ~r.ok THEN <<FALSE, NoneInt>>
          ELSE <<r.n >= 0, IF r.n >= 0 THEN SomeInt(r.n) ELSE NoneInt>> :
          r \in {ParseInt(value)}})

VARIABLES line, pc1, valid1, number1, call1, flow1, pc2, valid2, number2, call2, flow2

inputVars == <<line, pc1, valid1, number1, call1, flow1,
               pc2, valid2, number2, call2, flow2>>

NoCall == [called |-> FALSE, x |-> 0, y |-> 0, z |-> 0]

\* ------------------------------------------------------------- the pipeline
\* Both modules' processors are constructed from the same raw dataset and
\* receive the same calls; out1/out2 record what the last call gave.
VARIABLES data, proc1, proc2, out1, out2

pipeVars == <<data, proc1, proc2, out1, out2>>

NoOut == [op |-> "none", err |-> FALSE, threshold |-> FZero, list |-> NoList,
          stats |-> NoStats, outliers |-> <<>>, groups |-> NoGroups]

\* DataProcessor.__init__ of main.py and of main2.py
InitPipeline ==
    /\ data \in SeqsUpTo(RawValues, MaxLen)
    /\ proc1 = [processed |-> FALSE, results |-> NoList, writes |-> 0]
    /\ proc2 = [results |-> [values |-> NoList, is_processed |-> FALSE], writes |-> 0]
    /\ out1 = NoOut
    /\ out2 = NoOut

\* processor.process_data()
Process ==
    /\ proc1.writes < MaxWrites
    /\ proc2.writes < MaxWrites
    /\ \E r1 \in {ProcessData1(data, proc1)}, r2 \in {ProcessData2(data, proc2)} :
          /\ proc1' = r1.p
          /\ proc2' = r2.p
          /\ out1' = [NoOut EXCEPT !.op = "process", !.err = r1.err]
          /\ out2' = [NoOut EXCEPT !.op = "process", !.err = r2.err]
    /\ UNCHANGED <<data, fibVars, mathVars, inputVars>>

\* processor.get_results()
Results ==
    /\ \E r1 \in {GetResults1(data, proc1)}, r2 \in {GetResults2(data, proc2)} :
          /\ proc1' = r1.p
          /\ proc2' = r2.p
          /\ out1' = [NoOut EXCEPT !.op = "results", !.err = r1.err, !.list = r1.ret]
          /\ out2' = [NoOut EXCEPT !.op = "results", !.err = r2.err, !.list = r2.ret]
    /\ UNCHANGED <<data, fibVars, mathVars, inputVars>>

\* processor.calculate_stats()
Stats ==
    /\ \E r1 \in {CalculateStats1(data, proc1)}, r2 \in {CalculateStats2(data, proc2)} :
          /\ proc1' = r1.p
          /\ proc2' = r2.p
          /\ out1' = [NoOut EXCEPT !.op = "stats", !.err = r1.err, !.stats = r1.ret]
          /\ out2' = [NoOut EXCEPT !.op = "stats", !.err = r2.err, !.stats = r2.ret]
    /\ UNCHANGED <<data, fibVars, mathVars, inputVars>>

\* analyzer.find_outliers(threshold)
FindOutliers ==
    /\ \E threshold \in Thresholds :
         \E r1 \in {FindOutliers1(data, proc1, threshold)},
            r2 \in {FindOutliers2(data, proc2, threshold)} :
            /\ proc1' = r1.p
            /\ proc2' = r2.p
            /\ out1' = [NoOut EXCEPT !.op = "outliers", !.err = r1.err,
                                     !.threshold = threshold, !.outliers = r1.ret]
            /\ out2' = [NoOut EXCEPT !.op = "outliers", !.err = r2.err,
                                     !.threshold = threshold, !.outliers = r2.ret]
    /\ UNCHANGED <<data, fibVars, mathVars, inputVars>>

\* analyzer.group_values() / analyzer.group_values_by_ranges()
GroupByRange ==
    /\ \E r1 \in {GroupValues1(data, proc1)}, r2 \in {GroupValuesByRanges(data, proc2)} :
          /\ proc1' = r1.p
          /\ proc2' = r2.p
          /\ out1' = [NoOut EXCEPT !.op = "groups", !.err = r1.err, !.groups = r1.ret]
          /\ out2' = [NoOut EXCEPT !.op = "groups", !.err = r2.err, !.groups = r2.ret]
    /\ UNCHANGED <<data, fibVars, mathVars, inputVars>>

vars == <<pipeVars, fibVars, mathVars, inputVars>>

IdlePipeline ==
    /\ data = <<>>
    /\ proc1 = [processed |-> FALSE, results |-> NoList, writes |-> 0]
    /\ proc2 = [results |-> [values |-> NoList, is_processed |-> FALSE], writes |-> 0]
    /\ out1 = NoOut
    /\ out2 = NoOut

IdleFib == length = 0 /\ sequence = <<>> /\ fibPc = "idle" /\ fibRet = <<>>

IdleMath ==
    /\ opX = 0 /\ opY = 0 /\ opZ = NoneZ /\ opPc = "idle"
    /\ opOut1 = NoResult /\ opOut2 = NoResult

IdleInput ==
    /\ line = <<>>
    /\ pc1 = "idle" /\ valid1 = FALSE /\ number1 = NoneInt /\ call1 = NoCall
    /\ flow1 = NoResult
    /\ pc2 = "idle" /\ valid2 = FALSE /\ number2 = NoneInt /\ call2 = NoCall
    /\ flow2 = NoResult

Init == InitPipeline /\ IdleFib /\ IdleMath /\ IdleInput

Next == Process \/ Results \/ Stats \/ FindOutliers \/ GroupByRange

Spec == Init /\ [][Next]_vars

\* ----------------------------------------------------- Fibonacci, by steps
InitFib ==
    /\ length \in -2..MaxFibLen
    /\ sequence = <<>>
    /\ fibPc = "start"
    /\ fibRet = <<>>
    /\ IdlePipeline /\ IdleMath /\ IdleInput

\* if length <= 0: return [] / elif length == 1: return [0] / sequence = [0, 1]
FibStart ==
    /\ fibPc = "start"
    /\ IF length <= 0 THEN fibRet' = <<>> /\ fibPc' = "done" /\ UNCHANGED sequence
       ELSE IF length = 1 THEN fibRet' = <<0>> /\ fibPc' = "done" /\ UNCHANGED sequence
       ELSE sequence' = <<0, 1>> /\ fibPc' = "loop" /\ UNCHANGED fibRet
    /\ UNCHANGED <<length, pipeVars, mathVars, inputVars>>

\* FibLoop adding the last element to itself
FibLoop_Doubling ==
    /\ fibPc = "loop"
    /\ Len(sequence) < length
    /\ sequence' = Append(sequence,
                          sequence[Len(sequence)] + sequence[Len(sequence)])
    /\ UNCHANGED <<length, fibPc, fibRet, pipeVars, mathVars, inputVars>>

\* while len(sequence) < length: sequence.append(sequence[-1] + sequence[-2])
FibLoop ==
    /\ fibPc = "loop"
    /\ Len(sequence) < length
    /\ sequence' = Append(sequence,
                          sequence[Len(sequence)] + sequence[Len(sequence) - 1])
    /\ UNCHANGED <<length, fibPc, fibRet, pipeVars, mathVars, inputVars>>

\* return sequence[:length]
FibReturn ==
    /\ fibPc = "loop"
    /\ ~(Len(sequence) < length)
    /\ fibRet' = SubSeq(sequence, 1, IF length < Len(sequence) THEN length
                                     ELSE Len(sequence))
    /\ fibPc' = "done"
    /\ UNCHANGED <<length, sequence, pipeVars, mathVars, inputVars>>

NextFib == FibStart \/ FibLoop \/ FibReturn

\* The function runs to its return: nothing suspends it.
SpecFib == InitFib /\ [][NextFib]_vars /\ WF_vars(NextFib)

\* --------------------------------------------------- the math operation run
OptionalInts == {NoneZ} \cup {[present |-> TRUE, v |-> n] : n \in -MaxOperand..MaxOperand}

InitMath ==
    /\ opX \in -MaxOperand..MaxOperand
    /\ opY \in -MaxOperand..MaxOperand
    /\ opZ \in OptionalInts
    /\ opPc = "call"
    /\ opOut1 = NoResult
    /\ opOut2 = NoResult
    /\ IdlePipeline /\ IdleFib /\ IdleInput

\* complex_operation(x, y, z) and perform_complex_calculation(x, y, z)
Compute ==
    /\ opPc = "call"
    /\ opOut1' = ComplexOperation(opX, opY, opZ)
    /\ opOut2' = PerformComplexCalculation(opX, opY, opZ)
    /\ opPc' = "done"
    /\ UNCHANGED <<opX, opY, opZ, pipeVars, fibVars, inputVars>>

NextMath == Compute

SpecMath == InitMath /\ [][NextMath]_vars

\* ------------------------------------------------------ the user-input runs
InitInput ==
    /\ line \in SeqsUpTo(Chars, MaxTextLen)
    /\ pc1 = "read" /\ valid1 = FALSE /\ number1 = NoneInt /\ call1 = NoCall
    /\ flow1 = NoResult
    /\ pc2 = "read" /\ valid2 = FALSE /\ number2 = NoneInt /\ call2 = NoCall
    /\ flow2 = NoResult
    /\ IdlePipeline /\ IdleFib /\ IdleMath

\* main.py: user_input = input().strip(); is_valid, number = validate_input(user_input)
Validate1 ==
    /\ pc1 = "read"
    /\ \E r \in {ValidateInput(Strip(line))} : valid1' = r[1] /\ number1' = r[2]
    /\ pc1' = "validated"
    /\ UNCHANGED <<line, call1, flow1, pc2, valid2, number2, call2, flow2,
                   pipeVars, fibVars, mathVars>>

\* if not is_valid: print(...); return
Reject1 ==
    /\ pc1 = "validated"
    /\ ~valid1
    /\ flow1' = [status |-> "rejected", arg |-> FZero]
    /\ pc1' = "done"
    /\ UNCHANGED <<line, valid1, number1, call1, pc2, valid2, number2, call2, flow2,
                   pipeVars, fibVars, mathVars>>

\* print(f"... {complex_operation(number, number + 5, number - 3):.2f}")
Calculate1 ==
    /\ pc1 = "validated"
    /\ valid1
    /\ call1' = [called |-> TRUE, x |-> number1.v, y |-> number1.v + 5,
                 z |-> number1.v - 3]
    /\ flow1' = ComplexOperation(number1.v, number1.v + 5,
                                 [present |-> TRUE, v |-> number1.v - 3])
    /\ pc1' = "done"
    /\ UNCHANGED <<line, valid1, number1, pc2, valid2, number2, call2, flow2,
                   pipeVars, fibVars, mathVars>>

\* main2.py: InputValidator.process_user_input
Validate2 ==
    /\ pc2 = "read"
    /\ \E r \in {ValidatePositiveInteger(Strip(line))} :
          valid2' = r[1] /\ number2' = r[2]
    /\ pc2' = "validated"
    /\ UNCHANGED <<line, call2, flow2, pc1, valid1, number1, call1, flow1,
                   pipeVars, fibVars, mathVars>>

Reject2 ==
    /\ pc2 = "validated"
    /\ ~valid2
    /\ flow2' = [status |-> "rejected", arg |-> FZero]
    /\ pc2' = "done"
    /\ UNCHANGED <<line, valid2, number2, call2, pc1, valid1, number1, call1, flow1,
                   pipeVars, fibVars, mathVars>>

Calculate2 ==
    /\ pc2 = "validated"
    /\ valid2
    /\ call2' = [called |-> TRUE, x |-> number2.v, y |-> number2.v + 5,
                 z |-> number2.v - 3]
    /\ flow2' = PerformComplexCalculation(number2.v, number2.v + 5,
                                          [present |-> TRUE, v |-> number2.v - 3])
    /\ pc2' = "done"
    /\ UNCHANGED <<line, valid2, number2, pc1, valid1, number1, call1, flow1,
                   pipeVars, fibVars, mathVars>>

NextInput == Validate1 \/ Reject1 \/ Calculate1 \/ Validate2 \/ Reject2 \/ Calculate2

SpecInput == InitInput /\ [][NextInput]_vars

\* ================================================================== claims
Values1 == proc1.results.values

Values2 == proc2.results.values.values

Hundred == FromInt(100)

\* C1: after process() on a non-empty dataset the processed list has the
\* length of the raw one and its i-th element is adjustRange(selectTransform(D[i])),
\* the adjustment made once: a transformed value above 1000 stays above 100.
ProcessAppliesTransformOnce ==
    /\ proc1.processed =>
         /\ Len(Values1) = Len(data)
         /\ \A i \in 1..Len(data) :
              /\ Values1[i] = AdjustValueRange(SelectTransform(data[i]))
              /\ FGt(SelectTransform(data[i]), FromInt(1000)) => FGt(Values1[i], Hundred)
    /\ proc2.results.is_processed =>
         /\ Len(Values2) = Len(data)
         /\ \A i \in 1..Len(data) :
              /\ Values2[i] = AdjustValueRange(SelectTransform(data[i]))
              /\ FGt(SelectTransform(data[i]), FromInt(1000)) => FGt(Values2[i], Hundred)

\* a processed dataset holding a value that is still above 100 after its one division
ProcessedLargeValue ==
    /\ proc1.processed
    /\ \E i \in 1..Len(data) :
         FGt(SelectTransform(data[i]), FromInt(1000)) /\ FGt(Values1[i], Hundred)

ReadOps == {"results", "stats", "outliers", "groups"}

\* C2 as stated: once the ProcessedDataset has been computed the cache slot is
\* never written again and keeps the same list instance, whatever is called.
CacheWrittenExactlyOnce ==
    [][/\ proc1.processed => proc1' = proc1
       /\ proc2.results.is_processed => proc2' = proc2]_vars

\* C2 amended: results(), stats(), findOutliers() and groupByRange() write the
\* cache only when it is empty (the first of them writes it once) and results()
\* returns the cached instance; each process() call on a processed Processor
\* replaces the cache with a new list instance holding equal values.
CacheWrittenByFirstReadAndByProcess ==
    [][/\ (out1'.op \in ReadOps /\ proc1.processed) =>
             /\ proc1' = proc1
             /\ out1'.op = "results" => out1'.list = proc1.results
       /\ (out1'.op \in ReadOps /\ ~proc1.processed /\ data # <<>>) =>
             /\ proc1'.writes = 1
             /\ out1'.op = "results" => out1'.list = proc1'.results
       /\ (out1'.op = "process" /\ proc1.processed /\ proc1' # proc1) =>
             /\ proc1'.writes = proc1.writes + 1
             /\ proc1'.results.id # proc1.results.id
             /\ proc1'.results.values = proc1.results.values
       /\ (out2'.op \in ReadOps /\ proc2.results.is_processed) =>
             /\ proc2' = proc2
             /\ out2'.op = "results" => out2'.list = proc2.results.values
       /\ (out2'.op \in ReadOps /\ ~proc2.results.is_processed /\ data # <<>>) =>
             /\ proc2'.writes = 1
             /\ out2'.op = "results" => out2'.list = proc2'.results.values
       /\ (out2'.op = "process" /\ proc2.results.is_processed /\ proc2' # proc2) =>
             /\ proc2'.writes = proc2.writes + 1
             /\ proc2'.results.values.id # proc2.results.values.id
             /\ proc2'.results.values.values = proc2.results.values.values]_vars

\* results() read after the cache had been written a second time by process()
ReadAfterRewrite ==
    /\ out1.op = "results"
    /\ proc1.writes = 2
    /\ out1.list = proc1.results
    /\ out2.list = proc2.results.values

\* C3: on an empty RawDataset every call fails, returns nothing, and leaves
\* the Processor unprocessed with its cache as constructed.
EmptyDataAlwaysFails ==
    data = <<>> =>
        /\ proc1 = [processed |-> FALSE, results |-> NoList, writes |-> 0]
        /\ proc2 = [results |-> [values |-> NoList, is_processed |-> FALSE], writes |-> 0]
        /\ out1.op # "none" => out1 = [NoOut EXCEPT !.op = out1.op, !.err = TRUE,
                                                     !.threshold = out1.threshold]
        /\ out2.op # "none" => out2 = [NoOut EXCEPT !.op = out2.op, !.err = TRUE,
                                                     !.threshold = out2.threshold]

\* stats() has failed on an empty dataset
EmptyStatsFailed == data = <<>> /\ out1.op = "stats" /\ out1.err /\ out2.err

InLow(v) == FLt(v, FromInt(10))

InMedium(v) == FLe(FromInt(10), v) /\ FLe(v, FromInt(50))

InHigh(v) == FGt(v, FromInt(50))

PartitionOf(groups, values) ==
    /\ Len(groups.low) + Len(groups.medium) + Len(groups.high) = Len(values)
    /\ \A i \in 1..Len(values) :
         Cardinality({b \in {"low", "medium", "high"} :
                        \/ b = "low" /\ InLow(values[i])
                        \/ b = "medium" /\ InMedium(values[i])
                        \/ b = "high" /\ InHigh(values[i])}) = 1
    /\ groups.low = SelectSeq(values, InLow)
    /\ groups.medium = SelectSeq(values, InMedium)
    /\ groups.high = SelectSeq(values, InHigh)

\* C4: the three buckets partition the processed values: every value is in
\* exactly one of low (< 10), medium (10..50), high (> 50), the bucket lengths
\* add up to the number of values, and each bucket keeps the index order.
GroupsPartitionResults ==
    /\ (out1.op = "groups" /\ ~out1.err) => PartitionOf(out1.groups, Values1)
    /\ (out2.op = "groups" /\ ~out2.err) => PartitionOf(out2.groups, Values2)

\* a grouping with none of the three buckets empty
AllBucketsUsed ==
    /\ out1.op = "groups"
    /\ out1.groups.low # <<>> /\ out1.groups.medium # <<>> /\ out1.groups.high # <<>>
    /\ out2.groups.high # <<>>

IsConstant(values) == \A i \in 1..Len(values) : values[i] = values[1]

\* the pairs (i, v) with v the i-th value and |v - mean| > threshold * stdDev,
\* by increasing index
OutliersExact(outliers, values, threshold) ==
    \E st \in {CalculateBasicStats(values)} :
      /\ \A i \in 1..Len(values) :
           (\E k \in 1..Len(outliers) : outliers[k] = <<i - 1, values[i]>>)
             <=> FGt(FAbs(FSub(values[i], st.mean)), FMul(threshold, st.std_dev))
      /\ \A k \in 1..Len(outliers) :
           /\ outliers[k][1] \in 0..(Len(values) - 1)
           /\ outliers[k][2] = values[outliers[k][1] + 1]
      /\ \A k \in 1..(Len(outliers) - 1) : outliers[k][1] < outliers[k + 1][1]

\* C5: the outliers are exactly those pairs, and a constant
\* ProcessedDataset has none, whatever the threshold.
OutliersExactAndNoneIfConstant ==
    /\ (out1.op = "outliers" /\ ~out1.err) =>
         /\ OutliersExact(out1.outliers, Values1, out1.threshold)
         /\ IsConstant(Values1) => out1.outliers = <<>>
    /\ (out2.op = "outliers" /\ ~out2.err) =>
         /\ OutliersExact(out2.outliers, Values2, out2.threshold)
         /\ IsConstant(Values2) => out2.outliers = <<>>

FibPrefix(ret) ==
    /\ Len(ret) >= 1 => ret[1] = 0
    /\ Len(ret) >= 2 => ret[2] = 1
    /\ \A i \in 3..Len(ret) : ret[i] = ret[i - 1] + ret[i - 2]

\* C6: generate_fibonacci_sequence(length) terminates for every length and
\* returns max(length, 0) elements, the prefix 0, 1, 1, 2, 3, ... of the
\* Fibonacci sequence.
FibTerminatesWithPrefix ==
    <>[](/\ fibPc = "done"
         /\ Len(fibRet) = (IF length > 0 THEN length ELSE 0)
         /\ FibPrefix(fibRet))

\* generate_fibonacci_sequence(5) has returned [0, 1, 1, 2, 3]
FibFiveReturned == fibPc = "done" /\ length = 5 /\ fibRet = <<0, 1, 1, 2, 3>>

ZeroDivisorOnly(x, y, z, out) ==
    /\ out.status = "ValueError: zero divisor" <=> (z.present /\ z.v = 0)
    /\ ~(z.present /\ z.v = 0) => (out.status = "ok" /\ FGt(out.arg, FZero))

\* C7: compute(x, y, z) raises the zero-divisor error exactly when z is given
\* and is 0; otherwise the logarithm's argument is positive and a value is returned.
ComputeFailsIffZeroDivisor ==
    opPc = "done" =>
        /\ ZeroDivisorOnly(opX, opY, opZ, opOut1)
        /\ ZeroDivisorOnly(opX, opY, opZ, opOut2)

\* the product is 0, the divisor is given and not 0, and a value was returned
ComputedFromZeroProduct ==
    /\ opPc = "done" /\ opX = 0 /\ opZ.present /\ opZ.v # 0
    /\ opOut1.status = "ok" /\ opOut2.status = "ok"

\* C8: process() on a processed Processor leaves it processed with equal values.
ProcessIsIdempotent ==
    [][/\ (out1'.op = "process" /\ proc1.processed) =>
             (proc1'.processed /\ proc1'.results.values = proc1.results.values)
       /\ (out2'.op = "process" /\ proc2.results.is_processed) =>
             /\ proc2'.results.is_processed
             /\ proc2'.results.values.values = proc2.results.values.values]_vars

\* process() has just run for the second time
ProcessedTwice == out1.op = "process" /\ proc1.writes = 2 /\ proc2.writes = 2

\* C9: on the same dataset and the same calls main.py and main2.py give the
\* same outcome at every step and stay processed or unprocessed together.
ModulesAgree ==
    /\ out1 = out2
    /\ proc1.processed = proc2.results.is_processed
    /\ proc1.writes = proc2.writes
    /\ proc1.processed => proc1.results = proc2.results.values

\* both modules have returned the same non-empty outlier list
BothFoundOutliers == out1.op = "outliers" /\ out1.outliers # <<>> /\ out2 = out1

\* the text is an optional "-" and then digits only, once stripped of blanks
IsIntegerText(t) ==
    /\ t # <<>>
    /\ \A i \in 2..Len(t) : t[i] \in Digits
    /\ \/ t[1] \in Digits
       \/ t[1] = "-" /\ Len(t) >= 2

DigitsOf(t) == IF t[1] = "-" THEN Tail(t) ELSE t

RECURSIVE PlaceSum(_, _)
PlaceSum(ds, i) ==
    IF i > Len(ds) THEN 0 ELSE DigitVal(ds[i]) * 10 ^ (Len(ds) - i) + PlaceSum(ds, i + 1)

NumberOf(t) == IF t[1] = "-" THEN -PlaceSum(DigitsOf(t), 1) ELSE PlaceSum(DigitsOf(t), 1)

FlowOutcome(pc, valid, number, call, flow) ==
    \E t \in {Strip(line)} :
      /\ pc # "read" =>
           IF IsIntegerText(t) /\ NumberOf(t) >= 0
           THEN valid /\ number = SomeInt(NumberOf(t))
           ELSE ~valid /\ number = NoneInt
      /\ pc = "done" =>
           IF IsIntegerText(t) /\ NumberOf(t) >= 0
           THEN /\ call = [called |-> TRUE, x |-> NumberOf(t), y |-> NumberOf(t) + 5,
                           z |-> NumberOf(t) - 3]
                /\ IF NumberOf(t) = 3 THEN flow.status = "ValueError: zero divisor"
                   ELSE flow.status = "ok"
           ELSE call = NoCall /\ flow.status = "rejected"

====
